---- MODULE Spec2Model ----
(***************************************************************************)
(* file-search: the interactive shell (src/src/shell.rs) driving one       *)
(* optional write session (src/src/search.rs, FileSearchWriteTransaction)  *)
(* over two back-ends: the redb state table and the tantivy index.         *)
(*                                                                         *)
(* The two back-ends are external libraries; they are modelled by their    *)
(* interface contract: a redb write transaction sees its own writes and    *)
(* publishes them atomically at commit, a read transaction sees the last   *)
(* committed table; a tantivy writer stages add/delete operations that     *)
(* apply in the order issued and become visible to new readers at commit.  *)
(* A fallible library call fails when the step's fault input names it.     *)
(* The file system belongs to the environment: what fs::metadata and       *)
(* fs::read_to_string find at a path is an input of the command that reads *)
(* it, and it may be any file each time.                                   *)
(***************************************************************************)
EXTENDS Integers, FiniteSets, Sequences, TLC

\* ------------------------------------------------------------------ bounds
NumPaths == 2
NumContents == 3
HashSpace == 2
MaxEpoch == 1
MaxDocs == 2
MaxContentLen == 3
MaxStored == 2

Paths == 1..NumPaths
Contents == 0..(NumContents - 1)
Epochs == 0..MaxEpoch
Terms == 0..1

\* --------------------------------------------------------------- variables
VARIABLES
  db,        \* committed redb table file_states: path -> entry or NoEntry
  idx,       \* committed tantivy index: path -> content -> number of documents
  writer,    \* Shell.writer is Some(_)
  txn,       \* the table as the open write transaction sees it (db when none is open)
  wdocs,     \* the index as the open writer would commit it (idx when none is open)
  pc,        \* "loop" while Shell::watch reads lines, "done" after it returned
  dbAtOpen,  \* history: db when the open write session was opened
  idxAtOpen, \* history: idx when the open write session was opened
  received,  \* history: an add, remove or clear line was read since the last
             \* commit or rollback line
  accepted,  \* history: one of them got past path resolution and open_write
  req        \* one call of FileSearchReadTransaction::search: the documents the
             \* searcher holds, the query's terms, the limit, and what it returned

vars == <<db, idx, writer, txn, wdocs, pc, dbAtOpen, idxAtOpen, received, accepted, req>>

\* ------------------------------------------------------------- data model
NoEntry == [some |-> FALSE, epoch |-> 0, hash |-> 0]
FileStateEntry(epoch, hash) == [some |-> TRUE, epoch |-> epoch, hash |-> hash]

\* what a path holds: nothing, a directory, or a file of an mtime and bytes
NoFile == [kind |-> "none", mtime |-> 0, content |-> 0]
DirFile == [kind |-> "dir", mtime |-> 0, content |-> 0]
RegFile(m, c) == [kind |-> "file", mtime |-> m, content |-> c]

EmptyTable == [p \in Paths |-> NoEntry]
EmptyIndex == [p \in Paths |-> [c \in Contents |-> 0]]

\* xxh3_64 maps unboundedly many contents to 64 bits: distinct contents can
\* share a hash. The model keeps that with more contents than hash values.
xxh3_64(c) == c % HashSpace

\* number of documents whose path field is p
RECURSIVE SumTo(_, _)
SumTo(f, n) == IF n < 0 THEN 0 ELSE f[n] + SumTo(f, n - 1)
DocCount(docs, p) == SumTo(docs[p], NumContents - 1)
HasDoc(docs, p) == DocCount(docs, p) > 0

\* ----------------------------------------------------- error origin tags
\* mutant: the From impl of redb::CommitError tags Tantivy
ErrorSource_commit_as_tantivy(kind) ==
  CASE kind = "io::Error" -> "io"
    [] kind = "redb::Error" -> "redb"
    [] kind = "redb::StorageError" -> "redb"
    [] kind = "redb::TableError" -> "redb"
    [] kind = "redb::CommitError" -> "tantivy"
    [] kind = "TantivyError" -> "tantivy"
    [] kind = "QueryParserError" -> "tantivy"
    [] kind = "DatabaseError" -> "tantivy"
    [] kind = "OpenDirectoryError" -> "tantivy"
    [] kind = "TransactionError" -> "tantivy"

\* the tag each From impl gives the error type it converts
ErrorSource(kind) ==
  CASE kind = "io::Error" -> "io"
    [] kind = "redb::Error" -> "redb"
    [] kind = "redb::StorageError" -> "redb"
    [] kind = "redb::TableError" -> "redb"
    [] kind = "redb::CommitError" -> "redb"
    [] kind = "TantivyError" -> "tantivy"
    [] kind = "QueryParserError" -> "tantivy"
    [] kind = "DatabaseError" -> "tantivy"
    [] kind = "OpenDirectoryError" -> "tantivy"
    [] kind = "TransactionError" -> "tantivy"

\* ------------------------------------------- FileSearchWriteTransaction
\* What a write-session call returns: the table and the staged index after
\* it, the result ("ok" or the error's origin tag), the file I/O performed,
\* the index-writer calls issued, in order, and the injected fault that
\* fired ("none" if none did).
Outcome(t, d, res, io, ops, fault) ==
  [txn |-> t, wdocs |-> d, res |-> res, io |-> io, ops |-> ops, fault |-> fault]

get_file_data(file, f) ==
  IF f = "read" \/ file.kind # "file"
  THEN [ok |-> FALSE, content |-> 0, hash |-> 0,
        fault |-> IF f = "read" THEN f ELSE "none"]
  ELSE [ok |-> TRUE, content |-> file.content, hash |-> xxh3_64(file.content),
        fault |-> "none"]

get_file_epoch(file, f) ==
  IF f = "metadata" \/ file.kind = "none"
  THEN [ok |-> FALSE, value |-> 0, fault |-> IF f = "metadata" THEN f ELSE "none"]
  ELSE [ok |-> TRUE, value |-> file.mtime, fault |-> "none"]

get_from_state(t, p, f) ==
  IF f = "get_state" THEN [ok |-> FALSE, value |-> NoEntry]
  ELSE [ok |-> TRUE, value |-> t[p]]

insert_into_state(t, p, entry, f) ==
  IF f = "insert_state" THEN [ok |-> FALSE, txn |-> t]
  ELSE [ok |-> TRUE, txn |-> [t EXCEPT ![p] = entry]]

\* writer.add_document: one more document (path p, content c)
insert_into_index(d, p, c, f) ==
  IF f = "add_document" THEN [ok |-> FALSE, wdocs |-> d]
  ELSE [ok |-> TRUE, wdocs |-> [d EXCEPT ![p][c] = @ + 1]]

\* mutant: removing a missing key is an error
delete_from_state_strict(t, p, f) ==
  IF f = "delete_state" \/ ~t[p].some THEN [ok |-> FALSE, txn |-> t]
  ELSE [ok |-> TRUE, txn |-> [t EXCEPT ![p] = NoEntry]]

\* table.remove of a missing key is Ok(None)
delete_from_state(t, p, f) ==
  IF f = "delete_state" THEN [ok |-> FALSE, txn |-> t]
  ELSE [ok |-> TRUE, txn |-> [t EXCEPT ![p] = NoEntry]]

\* writer.delete_term(path = p): every document with that path, staged or
\* committed, issued before this call; it cannot fail
delete_from_index(d, p) == [d EXCEPT ![p] = [c \in Contents |-> 0]]

\* mutant: every change of epoch reindexes, whatever the hash
add_changed_ignoring_hash(t, d, p, file, state, epoch, f) ==
  LET data == get_file_data(file, f)
      io == {"probe", "read"} IN
  IF ~data.ok THEN Outcome(t, d, ErrorSource("io::Error"), io, <<>>, data.fault)
  ELSE
    LET d1 == delete_from_index(d, p)
        i == insert_into_index(d1, p, data.content, f) IN
    IF ~i.ok THEN Outcome(t, d1, ErrorSource("TantivyError"), io, <<"delete_term">>, f)
    ELSE
      LET s == insert_into_state(t, p, FileStateEntry(epoch, data.hash), f) IN
      IF ~s.ok
      THEN Outcome(t, i.wdocs, ErrorSource("redb::StorageError"), io,
                   <<"delete_term", "add_document">>, f)
      ELSE Outcome(s.txn, i.wdocs, "ok", io, <<"delete_term", "add_document">>, "none")

\* mutant: the changed file is inserted without deleting the old document
add_changed_without_delete(t, d, p, file, state, epoch, f) ==
  LET data == get_file_data(file, f)
      io == {"probe", "read"} IN
  IF ~data.ok THEN Outcome(t, d, ErrorSource("io::Error"), io, <<>>, data.fault)
  ELSE IF state.hash = data.hash THEN
    LET s == insert_into_state(t, p, FileStateEntry(epoch, data.hash), f) IN
    IF ~s.ok THEN Outcome(t, d, ErrorSource("redb::StorageError"), io, <<>>, f)
    ELSE Outcome(s.txn, d, "ok", io, <<>>, "none")
  ELSE
    LET i == insert_into_index(d, p, data.content, f) IN
    IF ~i.ok THEN Outcome(t, d, ErrorSource("TantivyError"), io, <<>>, f)
    ELSE
      LET s == insert_into_state(t, p, FileStateEntry(epoch, data.hash), f) IN
      IF ~s.ok
      THEN Outcome(t, i.wdocs, ErrorSource("redb::StorageError"), io, <<"add_document">>, f)
      ELSE Outcome(s.txn, i.wdocs, "ok", io, <<"add_document">>, "none")

\* the Some(state) arm of add, once the epochs differ
add_changed(t, d, p, file, state, epoch, f) ==
  LET data == get_file_data(file, f)
      io == {"probe", "read"} IN
  IF ~data.ok THEN Outcome(t, d, ErrorSource("io::Error"), io, <<>>, data.fault)
  ELSE IF state.hash = data.hash THEN
    LET s == insert_into_state(t, p, FileStateEntry(epoch, data.hash), f) IN
    IF ~s.ok THEN Outcome(t, d, ErrorSource("redb::StorageError"), io, <<>>, f)
    ELSE Outcome(s.txn, d, "ok", io, <<>>, "none")
  ELSE
    LET d1 == delete_from_index(d, p)
        i == insert_into_index(d1, p, data.content, f) IN
    IF ~i.ok THEN Outcome(t, d1, ErrorSource("TantivyError"), io, <<"delete_term">>, f)
    ELSE
      LET s == insert_into_state(t, p, FileStateEntry(epoch, data.hash), f) IN
      IF ~s.ok
      THEN Outcome(t, i.wdocs, ErrorSource("redb::StorageError"), io,
                   <<"delete_term", "add_document">>, f)
      ELSE Outcome(s.txn, i.wdocs, "ok", io, <<"delete_term", "add_document">>, "none")

\* mutant: the no-stored-state arm deletes by path before it inserts
add_new_deleting_first(t, d, p, file, epoch, f) ==
  LET data == get_file_data(file, f)
      io == {"probe", "read"} IN
  IF ~data.ok THEN Outcome(t, d, ErrorSource("io::Error"), io, <<>>, data.fault)
  ELSE
    LET s == insert_into_state(t, p, FileStateEntry(epoch, data.hash), f) IN
    IF ~s.ok THEN Outcome(t, d, ErrorSource("redb::StorageError"), io, <<>>, f)
    ELSE
      LET d1 == delete_from_index(d, p)
          i == insert_into_index(d1, p, data.content, f) IN
      IF ~i.ok THEN Outcome(s.txn, d1, ErrorSource("TantivyError"), io, <<"delete_term">>, f)
      ELSE Outcome(s.txn, i.wdocs, "ok", io, <<"delete_term", "add_document">>, "none")

\* the no-stored-state arm of add
add_new(t, d, p, file, epoch, f) ==
  LET data == get_file_data(file, f)
      io == {"probe", "read"} IN
  IF ~data.ok THEN Outcome(t, d, ErrorSource("io::Error"), io, <<>>, data.fault)
  ELSE
    LET s == insert_into_state(t, p, FileStateEntry(epoch, data.hash), f) IN
    IF ~s.ok THEN Outcome(t, d, ErrorSource("redb::StorageError"), io, <<>>, f)
    ELSE
      LET i == insert_into_index(d, p, data.content, f) IN
      IF ~i.ok THEN Outcome(s.txn, d, ErrorSource("TantivyError"), io, <<>>, f)
      ELSE Outcome(s.txn, i.wdocs, "ok", io, <<"add_document">>, "none")

\* mutant: add reads the file whenever a state is stored
add_without_epoch_check(t, d, p, file, f) ==
  LET ep == get_file_epoch(file, f) IN
  IF ~ep.ok THEN Outcome(t, d, ErrorSource("io::Error"), {"probe"}, <<>>, ep.fault)
  ELSE
    LET st == get_from_state(t, p, f) IN
    IF ~st.ok THEN Outcome(t, d, ErrorSource("redb::TableError"), {"probe"}, <<>>, f)
    ELSE IF st.value.some THEN add_changed(t, d, p, file, st.value, ep.value, f)
    ELSE add_new(t, d, p, file, ep.value, f)

add(t, d, p, file, f) ==
  LET ep == get_file_epoch(file, f) IN
  IF ~ep.ok THEN Outcome(t, d, ErrorSource("io::Error"), {"probe"}, <<>>, ep.fault)
  ELSE
    LET st == get_from_state(t, p, f) IN
    IF ~st.ok THEN Outcome(t, d, ErrorSource("redb::TableError"), {"probe"}, <<>>, f)
    ELSE IF st.value.some THEN
      IF st.value.epoch # ep.value
      THEN add_changed(t, d, p, file, st.value, ep.value, f)
      ELSE Outcome(t, d, "ok", {"probe"}, <<>>, "none")
    ELSE add_new(t, d, p, file, ep.value, f)

\* mutant: remove forgets the index
remove_state_only(t, d, p, f) ==
  LET s == delete_from_state(t, p, f) IN
  IF ~s.ok THEN Outcome(t, d, ErrorSource("redb::StorageError"), {}, <<>>, f)
  ELSE Outcome(s.txn, d, "ok", {}, <<>>, "none")

remove(t, d, p, f) ==
  LET d1 == delete_from_index(d, p)
      s == delete_from_state(t, p, f) IN
  IF ~s.ok THEN Outcome(t, d1, ErrorSource("redb::StorageError"), {}, <<"delete_term">>, f)
  ELSE Outcome(s.txn, d1, "ok", {}, <<"delete_term">>, "none")

\* mutant: clear removes the keys of the committed table
clear_committed_keys(t, d, f, k) ==
  IF f = "clear_open" THEN Outcome(t, d, ErrorSource("redb::TableError"), {}, <<>>, f)
  ELSE
    LET keys == {p \in Paths : db[p].some} IN
    IF f = "clear_remove" /\ k \in keys
    THEN Outcome([p \in Paths |-> IF p < k THEN NoEntry ELSE t[p]], d,
                 ErrorSource("redb::StorageError"), {}, <<>>, f)
    ELSE
      LET t1 == [p \in Paths |-> IF p \in keys THEN NoEntry ELSE t[p]] IN
      IF f = "delete_all" THEN Outcome(t1, d, ErrorSource("TantivyError"), {}, <<>>, f)
      ELSE Outcome(t1, EmptyIndex, "ok", {}, <<"delete_all_documents">>, "none")

\* clear: the keys the transaction sees, removed in key order; the removal
\* of key k fails under fault "clear_remove"; then delete_all_documents,
\* which drops every document, committed or staged before it
clear(t, d, f, k) ==
  IF f = "clear_open" THEN Outcome(t, d, ErrorSource("redb::TableError"), {}, <<>>, f)
  ELSE
    LET keys == {p \in Paths : t[p].some} IN
    IF f = "clear_remove" /\ k \in keys
    THEN Outcome([p \in Paths |-> IF p < k THEN NoEntry ELSE t[p]], d,
                 ErrorSource("redb::StorageError"), {}, <<>>, f)
    ELSE
      LET t1 == [p \in Paths |-> IF p \in keys THEN NoEntry ELSE t[p]] IN
      IF f = "delete_all" THEN Outcome(t1, d, ErrorSource("TantivyError"), {}, <<>>, f)
      ELSE Outcome(t1, EmptyIndex, "ok", {}, <<"delete_all_documents">>, "none")

\* commit and rollback consume the session; what they return is the
\* committed table and index afterwards
Committed(table, index, res, fault) ==
  [db |-> table, idx |-> index, res |-> res, fault |-> fault]

\* mutant: the State-Store transaction is committed first
commit_table_first(t, d, f) ==
  IF f = "txn_commit" THEN Committed(db, idx, ErrorSource("redb::CommitError"), f)
  ELSE IF f = "writer_commit" THEN Committed(t, idx, ErrorSource("TantivyError"), f)
  ELSE Committed(t, d, "ok", "none")

\* mutant: the State-Store commit is attempted although the engine's failed
commit_both_attempted(t, d, f) ==
  IF f = "writer_commit" THEN Committed(t, idx, ErrorSource("TantivyError"), f)
  ELSE IF f = "txn_commit" THEN Committed(db, d, ErrorSource("redb::CommitError"), f)
  ELSE Committed(t, d, "ok", "none")

commit(t, d, f) ==
  IF f = "writer_commit" THEN Committed(db, idx, ErrorSource("TantivyError"), f)
  ELSE IF f = "txn_commit" THEN Committed(db, d, ErrorSource("redb::CommitError"), f)
  ELSE Committed(t, d, "ok", "none")

\* mutant: rollback commits the State-Store transaction
rollback_commits_table(t, d, f) == Committed(t, idx, "ok", "none")

rollback(t, d, f) ==
  IF f = "writer_rollback" THEN Committed(db, idx, ErrorSource("TantivyError"), f)
  ELSE IF f = "txn_abort" THEN Committed(db, idx, ErrorSource("redb::StorageError"), f)
  ELSE Committed(db, idx, "ok", "none")

\* ------------------------------------------- FileSearchReadTransaction
\* list: every entry of the committed table
list(table) ==
  {[path |-> p, epoch |-> table[p].epoch, hash |-> table[p].hash] :
     p \in {q \in Paths : table[q].some}}

\* the terms of a content: content c holds term t iff bit t of c is set
HasTerm(c, t) == (c \div (2 ^ t)) % 2 = 1

\* search: per path, the number of committed documents holding the term
search(index, q) ==
  [p \in Paths |-> SumTo([c \in Contents |-> IF HasTerm(c, q) THEN index[p][c] ELSE 0],
                         NumContents - 1)]

\* ------------------------------------------------ search: the fragments
\* A stored content is a string over a lower-case letter of one byte, an
\* upper-case letter of two bytes ("E", lower-case "e") and the blank.
Chars == {"a", "E", " "}
Width(c) == IF c \in {"E", "e"} THEN 2 ELSE 1
to_lowercase(c) == IF c = "E" THEN "e" ELSE c
Lowered(text) == [i \in 1..Len(text) |-> to_lowercase(text[i])]

Token(text, from, to) == [text |-> text, offset_from |-> from, offset_to |-> to]

\* the field's tokenizer: maximal runs of letters, lower-cased, each with
\* the byte offsets of its first byte and of the byte after its last;
\* i is the next character, pos its byte offset, text and from the run so far
RECURSIVE token_stream_from(_, _, _, _, _)
token_stream_from(content, i, pos, text, from) ==
  LET run == IF text = <<>> THEN <<>> ELSE <<Token(Lowered(text), from, pos)>> IN
  IF i > Len(content) THEN run
  ELSE IF content[i] = " "
  THEN run \o token_stream_from(content, i + 1, pos + 1, <<>>, pos + 1)
  ELSE token_stream_from(content, i + 1, pos + Width(content[i]),
                         Append(text, content[i]), IF text = <<>> THEN pos ELSE from)

token_stream(content) == token_stream_from(content, 1, 0, <<>>, 0)

\* mutant: a term's first range only
collect_fragments_first_only(tokens, terms, fragments) ==
  LET first(t) == CHOOSE i \in 1..Len(tokens) :
                    /\ Lowered(tokens[i].text) = t
                    /\ \A j \in 1..(i - 1) : Lowered(tokens[j].text) # t
      keys == {t \in terms : \E i \in 1..Len(tokens) : Lowered(tokens[i].text) = t} IN
  [t \in keys |-> <<<<tokens[first(t)].offset_from, tokens[first(t)].offset_to>>>>]

\* the while loop over the token stream: the range of every token whose
\* lower-cased text is a term of the query is pushed to that term's list
RECURSIVE collect_fragments(_, _, _)
collect_fragments(tokens, terms, fragments) ==
  IF tokens = <<>> THEN fragments
  ELSE
    LET token == Head(tokens)
        token_text == Lowered(token.text)
        range == <<token.offset_from, token.offset_to>> IN
    collect_fragments(Tail(tokens), terms,
      IF token_text \notin terms THEN fragments
      ELSE IF token_text \in DOMAIN fragments
      THEN [fragments EXCEPT ![token_text] = Append(@, range)]
      ELSE [t \in DOMAIN fragments \cup {token_text} |->
              IF t = token_text THEN <<range>> ELSE fragments[t]])

NoFragments == [t \in {} |-> <<>>]

\* limit.unwrap_or(100_000); 0 stands for None
DefaultLimit == 100000
EffectiveLimit(limit) == IF limit = 0 THEN DefaultLimit ELSE limit

\* the query as parsed over the content field: a document matches when one
\* of its tokens is one of the terms
Matches(doc, terms) ==
  \E i \in 1..Len(token_stream(doc.content)) : token_stream(doc.content)[i].text \in terms

\* TopDocs::with_limit: the matching documents, best first, cut at the
\* limit; the order of the scores is taken to be the order of docs
RECURSIVE top_docs(_, _, _)
top_docs(docs, terms, limit) ==
  IF docs = <<>> \/ limit = 0 THEN <<>>
  ELSE IF Matches(Head(docs), terms)
  THEN <<Head(docs)>> \o top_docs(Tail(docs), terms, limit - 1)
  ELSE top_docs(Tail(docs), terms, limit)

\* the for loop over top_docs: one entry per document that has a path
RECURSIVE search_entries(_, _)
search_entries(top, terms) ==
  IF top = <<>> THEN <<>>
  ELSE
    LET doc == Head(top)
        fragments == collect_fragments(token_stream(doc.content), terms, NoFragments) IN
    (IF doc.path # 0 THEN <<[path |-> doc.path, fragments |-> fragments]>> ELSE <<>>)
      \o search_entries(Tail(top), terms)

\* ------------------------------------------------------------------ Shell
\* What one command does: the shell and store state after it, and what it
\* reported: res is the message kind, src the error's origin tag, io the
\* I/O and sessions it used, fault the injected fault that fired, listed and
\* hits the line printed by list and search.
Effect(w, table, index, t, d, running, res, src, io, fault, listed, hits) ==
  [writer |-> w, db |-> table, idx |-> index, txn |-> t, wdocs |-> d, pc |-> running,
   res |-> res, src |-> src, io |-> io, fault |-> fault, listed |-> listed, hits |-> hits]

NoHits == [p \in Paths |-> 0]

\* a command that changes nothing and prints a diagnostic
Report(res, src, io, fault) ==
  Effect(writer, db, idx, txn, wdocs, pc, res, src, io, fault, {}, NoHits)

\* fs::metadata(path): Some(path) only for a regular file
resolve_file_path(file) ==
  IF file.kind = "file" THEN "file"
  ELSE IF file.kind = "dir" THEN "not_a_file"
  ELSE "no_access"

\* FileSearch::open_write: db.begin_write()?, then index.writer(..)?
open_write(f) ==
  IF f = "begin_write" THEN [ok |-> FALSE, src |-> ErrorSource("TransactionError")]
  ELSE IF f = "index_writer" THEN [ok |-> FALSE, src |-> ErrorSource("TantivyError")]
  ELSE [ok |-> TRUE, src |-> ""]

\* FileSearch::open_read: db.begin_read()?, then the reader
open_read(f) ==
  IF f = "begin_read" THEN [ok |-> FALSE, src |-> ErrorSource("TransactionError")]
  ELSE IF f = "reader" THEN [ok |-> FALSE, src |-> ErrorSource("TantivyError")]
  ELSE [ok |-> TRUE, src |-> ""]

\* mutant: every command opens a write session of its own
get_or_create_writer_always_new(f) ==
  [ok |-> open_write(f).ok, src |-> open_write(f).src, opens |-> {"write_session"}]

\* the writer the command works on: the held one, or a fresh one, with the
\* sessions this opens or tries to open
get_or_create_writer(f) ==
  IF writer THEN [ok |-> TRUE, src |-> "", opens |-> {}]
  ELSE [ok |-> open_write(f).ok, src |-> open_write(f).src, opens |-> {"write_session"}]

\* mutant: a failed operation closes the session
with_writer_closing_on_error(f, o, stat) ==
  LET w == get_or_create_writer(f) IN
  IF ~w.ok THEN Report("open_error", w.src, stat \cup w.opens, f)
  ELSE IF o.res # "ok"
  THEN Effect(FALSE, db, idx, db, idx, pc, "error", o.res,
              stat \cup w.opens \cup o.io, o.fault, {}, NoHits)
  ELSE Effect(TRUE, db, idx, o.txn, o.wdocs, pc, "ok", "",
              stat \cup w.opens \cup o.io, o.fault, {}, NoHits)

\* with_writer: o is the Outcome of the write-session call on (txn, wdocs)
with_writer(f, o, stat) ==
  LET w == get_or_create_writer(f) IN
  IF ~w.ok THEN Report("open_error", w.src, stat \cup w.opens, f)
  ELSE Effect(TRUE, db, idx, o.txn, o.wdocs, pc,
              IF o.res = "ok" THEN "ok" ELSE "error",
              IF o.res = "ok" THEN "" ELSE o.res,
              stat \cup w.opens \cup o.io, o.fault, {}, NoHits)

handle_add_command(p, file, f) ==
  IF resolve_file_path(file) # "file"
  THEN Report(resolve_file_path(file), "", {"stat"}, "none")
  ELSE with_writer(f, add(txn, wdocs, p, file, f), {"stat"})

handle_remove_command(p, file, f) ==
  IF resolve_file_path(file) # "file"
  THEN Report(resolve_file_path(file), "", {"stat"}, "none")
  ELSE with_writer(f, remove(txn, wdocs, p, f), {"stat"})

handle_clear_command(f, k) == with_writer(f, clear(txn, wdocs, f, k), {})

\* self.writer.take(): the session is consumed whatever c, the result of
\* committing or rolling it back, is
\* mutant: the writer is put back when the call failed
take_writer_kept_on_error(c) ==
  Effect(c.res # "ok", c.db, c.idx, IF c.res = "ok" THEN c.db ELSE txn,
         IF c.res = "ok" THEN c.idx ELSE wdocs, pc,
         IF c.res = "ok" THEN "ok" ELSE "error",
         IF c.res = "ok" THEN "" ELSE c.res, {}, c.fault, {}, NoHits)

take_writer(c) ==
  Effect(FALSE, c.db, c.idx, c.db, c.idx, pc,
         IF c.res = "ok" THEN "ok" ELSE "error",
         IF c.res = "ok" THEN "" ELSE c.res, {}, c.fault, {}, NoHits)

handle_commit_command(f) ==
  IF writer THEN take_writer(commit(txn, wdocs, f))
  ELSE Report("nothing", "", {}, "none")

handle_rollback_command(f) ==
  IF writer THEN take_writer(rollback(txn, wdocs, f))
  ELSE Report("nothing", "", {}, "none")

\* ("exit", None): handle_rollback_command, then return false
handle_exit_command(f) == [handle_rollback_command(f) EXCEPT !.pc = "done"]

\* mutant: list is refused while a writer is held, as search is
handle_list_command_guarded(f) ==
  IF writer THEN Report("rejected", "", {}, "none")
  ELSE
    LET r == open_read(f) IN
    IF ~r.ok THEN Report("open_error", r.src, {"read_session"}, f)
    ELSE IF f = "iter"
    THEN Report("error", ErrorSource("redb::StorageError"), {"read_session"}, f)
    ELSE Effect(writer, db, idx, txn, wdocs, pc, "ok", "", {"read_session"}, "none",
                list(db), NoHits)

handle_list_command(f) ==
  LET r == open_read(f) IN
  IF ~r.ok THEN Report("open_error", r.src, {"read_session"}, f)
  ELSE IF f = "iter"
  THEN Report("error", ErrorSource("redb::StorageError"), {"read_session"}, f)
  ELSE Effect(writer, db, idx, txn, wdocs, pc, "ok", "", {"read_session"}, "none",
              list(db), NoHits)

\* mutant: search does not look at the writer
handle_search_command_unguarded(q, f) ==
  LET r == open_read(f) IN
  IF ~r.ok THEN Report("error", r.src, {"read_session"}, f)
  ELSE Effect(writer, db, idx, txn, wdocs, pc, "ok", "", {"read_session", "query"},
              "none", {}, search(idx, q))

handle_search_command(q, f) ==
  IF ~writer THEN
    LET r == open_read(f) IN
    IF ~r.ok THEN Report("error", r.src, {"read_session"}, f)
    ELSE IF f = "query"
    THEN Report("error", ErrorSource("QueryParserError"), {"read_session", "query"}, f)
    ELSE Effect(writer, db, idx, txn, wdocs, pc, "ok", "", {"read_session", "query"},
                "none", {}, search(idx, q))
  ELSE Report("rejected", "", {}, "none")

handle_help_command == Report("ok", "", {}, "none")

\* the `_` arm of handle_command: an unknown name or a wrong arity
unknown_command == Report("unknown", "", {}, "none")

\* the command names, "bogus" standing for every other word
CommandNames == {"help", "clear", "list", "commit", "rollback", "exit",
                 "add", "remove", "search", "bogus"}

\* the (name, arg) patterns handle_command matches before the `_` arm
Known(name, hasArg) ==
  \/ name \in {"help", "clear", "list", "commit", "rollback", "exit"} /\ ~hasArg
  \/ name \in {"add", "remove", "search"} /\ hasArg

\* mutant: the match looks at the name only
handle_command_ignoring_arity(name, hasArg, p, file, q, f, k) ==
  CASE name = "help" -> handle_help_command
    [] name = "clear" -> handle_clear_command(f, k)
    [] name = "list" -> handle_list_command(f)
    [] name = "commit" -> handle_commit_command(f)
    [] name = "rollback" -> handle_rollback_command(f)
    [] name = "exit" -> handle_exit_command(f)
    [] name = "add" -> handle_add_command(p, file, f)
    [] name = "remove" -> handle_remove_command(p, file, f)
    [] name = "search" -> handle_search_command(q, f)
    [] OTHER -> unknown_command

\* handle_command: the line's first word and whether a second part follows;
\* p and file are the path the argument names and what is found there, q
\* the query it spells
handle_command(name, hasArg, p, file, q, f, k) ==
  CASE name = "help" /\ ~hasArg -> handle_help_command
    [] name = "clear" /\ ~hasArg -> handle_clear_command(f, k)
    [] name = "list" /\ ~hasArg -> handle_list_command(f)
    [] name = "commit" /\ ~hasArg -> handle_commit_command(f)
    [] name = "rollback" /\ ~hasArg -> handle_rollback_command(f)
    [] name = "exit" /\ ~hasArg -> handle_exit_command(f)
    [] name = "add" /\ hasArg -> handle_add_command(p, file, f)
    [] name = "remove" /\ hasArg -> handle_remove_command(p, file, f)
    [] name = "search" /\ hasArg -> handle_search_command(q, f)
    [] OTHER -> unknown_command

\* stdin ends: watch returns and main drops the Shell; dropping an open
\* writer and write transaction commits neither
\* mutant: dropping the writer flushes what it staged
end_of_input_flushing ==
  Effect(FALSE, db, wdocs, db, wdocs, "done", "ok", "", {}, "none", {}, NoHits)

end_of_input ==
  Effect(FALSE, db, idx, db, idx, "done", "ok", "", {}, "none", {}, NoHits)

\* ---------------------------------------------------------------- actions
AddFaults == {"none", "begin_write", "index_writer", "metadata", "get_state",
              "read", "insert_state", "add_document"}
RemoveFaults == {"none", "begin_write", "index_writer", "delete_state"}
ClearFaults == {"none", "begin_write", "index_writer", "clear_open",
                "clear_remove", "delete_all"}
CommitFaults == {"none", "writer_commit", "txn_commit"}
RollbackFaults == {"none", "writer_rollback", "txn_abort"}
ListFaults == {"none", "begin_read", "reader", "iter"}
SearchFaults == {"none", "begin_read", "reader", "query"}
AllFaults == AddFaults \cup RemoveFaults \cup ClearFaults \cup CommitFaults
             \cup RollbackFaults \cup ListFaults \cup SearchFaults

\* the back-end whose call fails under each fault: std::fs, redb or tantivy
FaultOrigin(f) ==
  IF f \in {"metadata", "read"} THEN "io"
  ELSE IF f \in {"begin_write", "begin_read", "get_state", "insert_state", "delete_state",
                 "clear_open", "clear_remove", "txn_commit", "txn_abort", "iter"}
  THEN "redb"
  ELSE "tantivy"

\* the loop takes the effect e of one command
Step(e) ==
  /\ pc = "loop"
  /\ \A q \in Paths : DocCount(e.wdocs, q) <= MaxDocs
  /\ writer' = e.writer
  /\ db' = e.db
  /\ idx' = e.idx
  /\ txn' = e.txn
  /\ wdocs' = e.wdocs
  /\ pc' = e.pc
  /\ dbAtOpen' = IF writer /\ e.writer THEN dbAtOpen ELSE e.db
  /\ idxAtOpen' = IF writer /\ e.writer THEN idxAtOpen ELSE e.idx
  /\ UNCHANGED req

\* history: the line read was an add, remove or clear, reported as e.res
Staging(e) ==
  /\ received' = TRUE
  /\ accepted' = (accepted \/ e.res \in {"ok", "error"})

\* history: the line read was a commit, a rollback or an exit
Resolving ==
  /\ received' = FALSE
  /\ accepted' = FALSE

AddCommand(p, file, f) == Step(handle_add_command(p, file, f)) /\ Staging(handle_add_command(p, file, f))
RemoveCommand(p, file, f) == Step(handle_remove_command(p, file, f)) /\ Staging(handle_remove_command(p, file, f))
ClearCommand(f, k) == Step(handle_clear_command(f, k)) /\ Staging(handle_clear_command(f, k))
CommitCommand(f) == Step(handle_commit_command(f)) /\ Resolving
RollbackCommand(f) == Step(handle_rollback_command(f)) /\ Resolving
ExitCommand(f) == Step(handle_exit_command(f)) /\ Resolving
ListCommand(f) == Step(handle_list_command(f)) /\ UNCHANGED <<received, accepted>>
SearchCommand(q, f) == Step(handle_search_command(q, f)) /\ UNCHANGED <<received, accepted>>
HelpCommand == Step(handle_help_command) /\ UNCHANGED <<received, accepted>>
UnknownCommand ==
  \E name \in CommandNames, hasArg \in BOOLEAN :
    /\ ~Known(name, hasArg)
    /\ Step(handle_command(name, hasArg, 1, NoFile, 0, "none", 1))
    /\ UNCHANGED <<received, accepted>>
EndOfInput == Step(end_of_input) /\ UNCHANGED <<received, accepted>>

\* ------------------------------------------------------------ environment
\* what a command can find at a path: other processes create, rewrite,
\* touch and delete files, or make the path a directory, between commands
RegFiles == {RegFile(m, c) : m \in Epochs, c \in Contents}
Files == {NoFile, DirFile} \cup RegFiles

\* the files of the two-path specification: one content, one mtime
SessionFiles == {NoFile, RegFile(0, 1)}

\* the files of the fault-free specification: contents of distinct hashes
DistinctFiles == {NoFile} \cup {RegFile(m, c) : m \in Epochs, c \in 0..(HashSpace - 1)}

\* the stored contents: the strings of at most MaxContentLen characters
RECURSIVE Strings(_)
Strings(n) ==
  IF n = 0 THEN {<<>>}
  ELSE Strings(n - 1) \cup {Append(s, c) : s \in {x \in Strings(n - 1) : Len(x) = n - 1}, c \in Chars}

\* a stored document: its path (0 when the path field has no value) and content
StoredDocs == [path : 0..1, content : Strings(MaxContentLen)]

RECURSIVE DocSeqs(_)
DocSeqs(n) ==
  IF n = 0 THEN {<<>>}
  ELSE DocSeqs(n - 1) \cup {Append(s, d) : s \in {x \in DocSeqs(n - 1) : Len(x) = n - 1}, d \in StoredDocs}

\* the terms a parsed query can hold: lower-case words
QueryTerms == {<<"a">>, <<"e">>, <<"a", "e">>}

Request(docs, terms, limit) ==
  [docs |-> docs, terms |-> terms, limit |-> limit, done |-> FALSE, entries |-> <<>>]

\* no search under way
NoRequest == Request(<<>>, {}, 0)

\* reader.search(query, limit) returns
SearchReturns ==
  /\ ~req.done
  /\ req.docs # <<>>
  /\ req' = [req EXCEPT !.done = TRUE,
                        !.entries = search_entries(top_docs(req.docs, req.terms,
                                                            EffectiveLimit(req.limit)),
                                                   req.terms)]
  /\ UNCHANGED <<db, idx, writer, txn, wdocs, pc, dbAtOpen, idxAtOpen, received, accepted>>

\* ------------------------------------------------------------------- spec
Init ==
  /\ req = NoRequest
  /\ db = EmptyTable
  /\ idx = EmptyIndex
  /\ writer = FALSE
  /\ txn = EmptyTable
  /\ wdocs = EmptyIndex
  /\ pc = "loop"
  /\ dbAtOpen = EmptyTable
  /\ idxAtOpen = EmptyIndex
  /\ received = FALSE
  /\ accepted = FALSE

\* the commands name paths of PS and find files of FS there, and the
\* back-ends fail at the calls of F
NextOver(PS, FS, F) ==
  \/ \E p \in PS, file \in FS, f \in AddFaults \cap F : AddCommand(p, file, f)
  \/ \E p \in PS, file \in FS, f \in RemoveFaults \cap F : RemoveCommand(p, file, f)
  \/ \E f \in ClearFaults \cap F, k \in PS : ClearCommand(f, k)
  \/ \E f \in CommitFaults \cap F : CommitCommand(f)
  \/ \E f \in RollbackFaults \cap F : RollbackCommand(f)
  \/ \E f \in RollbackFaults \cap F : ExitCommand(f)
  \/ \E f \in ListFaults \cap F : ListCommand(f)
  \/ \E q \in Terms, f \in SearchFaults \cap F : SearchCommand(q, f)
  \/ HelpCommand
  \/ UnknownCommand
  \/ EndOfInput

\* two paths, files of one content: the session and its two stores
Next == NextOver(Paths, SessionFiles, AllFaults)
Spec == Init /\ [][Next]_vars

\* one path, every file: the change detector
NextDetector == NextOver({1}, Files, AllFaults)
SpecDetector == Init /\ [][NextDetector]_vars

\* two paths, and no back-end call fails
NextNoFaults == NextOver(Paths, DistinctFiles, {"none"})
SpecNoFaults == Init /\ [][NextNoFaults]_vars

\* the search function alone: any stored documents, any one or two query
\* terms, no limit or a limit of one
InitSearch ==
  /\ req \in {Request(docs, terms, limit) :
                docs \in DocSeqs(MaxStored) \ {<<>>},
                terms \in {T \in SUBSET QueryTerms : Cardinality(T) \in 1..2},
                limit \in 0..1}
  /\ db = EmptyTable
  /\ idx = EmptyIndex
  /\ writer = FALSE
  /\ txn = EmptyTable
  /\ wdocs = EmptyIndex
  /\ pc = "loop"
  /\ dbAtOpen = EmptyTable
  /\ idxAtOpen = EmptyIndex
  /\ received = FALSE
  /\ accepted = FALSE

NextSearch == SearchReturns
SpecSearch == InitSearch /\ [][NextSearch]_vars

\* ================================================================ claims
Pending == writer

\* C1: while a write session is open, search is rejected with the
\* uncommitted-changes error, opens no read session and runs no query,
\* whatever the query; a query runs only when no write session is open.
C1_SearchRejectedWhilePending ==
  \A q \in Terms, f \in SearchFaults :
    LET e == handle_search_command(q, f) IN
    /\ Pending => /\ e.res = "rejected"
                  /\ e.io = {}
                  /\ e.hits = NoHits
    /\ "query" \in e.io => ~Pending
    /\ e.res = "rejected" => Pending

\* a session is open over a committed index in which a search would hit
C1_Witness ==
  /\ Pending
  /\ \E q \in Terms : search(idx, q) # NoHits

\* C2: rollback, or exit, of an open session leaves the committed table and
\* the committed index as they were when the session was opened; the list
\* after it shows the paths indexed then, those staged for removal included,
\* and none that was only staged for addition.
C2_RollbackRestores ==
  Pending =>
    \A f \in RollbackFaults :
      \A e \in {handle_rollback_command(f), handle_exit_command(f)} :
        /\ e.db = dbAtOpen
        /\ e.idx = idxAtOpen
        /\ {r.path : r \in list(e.db)} = {p \in Paths : dbAtOpen[p].some}

\* one path staged for addition and another, indexed before, staged for removal
C2_Witness ==
  /\ Pending
  /\ \E p1, p2 \in Paths :
       /\ ~dbAtOpen[p1].some /\ txn[p1].some /\ HasDoc(wdocs, p1)
       /\ dbAtOpen[p2].some /\ ~txn[p2].some /\ HasDoc(idxAtOpen, p2) /\ ~HasDoc(wdocs, p2)

\* C5: commit and rollback always leave the shell without a writer and in
\* the loop: with a session open it is consumed whether the call succeeded
\* or failed, and nothing of it stays staged; with none open the command
\* only reports that there is nothing to do.
C5_SessionConsumed ==
  \A f \in CommitFaults \cup RollbackFaults :
    \A e \in {handle_commit_command(f), handle_rollback_command(f)} :
      /\ ~e.writer
      /\ e.pc = pc
      /\ e.txn = e.db /\ e.wdocs = e.idx
      /\ Pending => e.res \in {"ok", "error"}
      /\ ~Pending => /\ e.res = "nothing"
                     /\ e.db = db /\ e.idx = idx

\* a session with staged changes, which a failing commit would leave behind
C5_Witness ==
  /\ Pending
  /\ txn # db
  /\ wdocs # idx
  /\ handle_commit_command("writer_commit").res = "error"
  /\ handle_rollback_command("txn_abort").res = "error"

\* a FileState exists for a path iff the index holds a document for it
Consistent(table, index) == \A p \in Paths : table[p].some <=> HasDoc(index, p)

\* C3: when no staged operation and no commit has failed, the committed
\* table and the committed index name the same paths, and every commit of
\* the open session leaves them so, whatever operations and file changes
\* came before.
C3_StateIffDocument ==
  /\ Consistent(db, idx)
  /\ Pending => LET e == handle_commit_command("none") IN
                /\ e.res = "ok"
                /\ e.db = txn /\ e.idx = wdocs
                /\ Consistent(e.db, e.idx)

\* a committed path that the open session added again after its file
\* changed, beside a path not indexed
C3_Witness ==
  /\ Pending
  /\ \E p, q \in Paths :
       /\ db[p].some /\ HasDoc(idx, p)
       /\ txn[p].some /\ txn[p].epoch # db[p].epoch /\ wdocs[p] # idx[p]
       /\ ~db[q].some /\ ~HasDoc(idx, q)

\* what the staging commands and the read sessions do to visibility: add,
\* remove and clear publish nothing, list prints the table and search uses
\* the index as committed when the session was opened
StagedInvisible ==
  /\ \A p \in Paths, file \in Files, f \in AddFaults :
       LET e == handle_add_command(p, file, f) IN e.db = db /\ e.idx = idx
  /\ \A p \in Paths, file \in Files, f \in RemoveFaults :
       LET e == handle_remove_command(p, file, f) IN e.db = db /\ e.idx = idx
  /\ \A f \in ClearFaults, k \in Paths :
       LET e == handle_clear_command(f, k) IN e.db = db /\ e.idx = idx
  /\ \A f \in ListFaults :
       LET e == handle_list_command(f) IN e.res = "ok" => e.listed = list(dbAtOpen)
  /\ \A q \in Terms, f \in SearchFaults :
       LET e == handle_search_command(q, f) IN e.res = "ok" => e.hits = search(idxAtOpen, q)

\* C4 as claimed: nothing staged is observable before commit returned
\* successfully, and a commit that returns an error publishes nothing.
C4_Original ==
  /\ StagedInvisible
  /\ Pending => \A f \in CommitFaults :
       LET e == handle_commit_command(f) IN
       e.res # "ok" => e.db = db /\ e.idx = idx

\* C4 as amended: nothing staged is observable before commit is called; a
\* commit that fails publishes no FileState change, and publishes the
\* staged documents exactly when the engine commit had succeeded and the
\* State-Store commit failed; a commit that succeeds publishes both.
C4_InvisibleUntilCommit ==
  /\ StagedInvisible
  /\ Pending => \A f \in CommitFaults :
       LET e == handle_commit_command(f) IN
       /\ e.res # "ok" => /\ e.db = db
                          /\ e.fault = "writer_commit" => e.idx = idx
                          /\ e.fault = "txn_commit" => e.idx = wdocs
                          /\ e.fault \in {"writer_commit", "txn_commit"}
       /\ e.res = "ok" => e.db = txn /\ e.idx = wdocs

\* a session over a non-empty committed table, with FileState and document
\* changes staged
C4_Witness ==
  /\ Pending
  /\ db # EmptyTable
  /\ txn # db
  /\ wdocs # idx
  /\ list(txn) # list(db)

\* a further add(p) only probed the metadata: it read and hashed no
\* content, issued no writer call, and left table t and documents d alone
Skipped(o, t, d) ==
  /\ o.io = {"probe"}
  /\ o.ops = <<>>
  /\ o.txn = t
  /\ o.wdocs = d
  /\ o.fault = "none" => o.res = "ok"

\* C6: once add(p) has been applied, in this session or in one committed
\* since, and the file's mtime and bytes are what they were then, a further
\* add(p) only probes the metadata: it reads and hashes no content, issues
\* no writer call, and leaves the table and the staged documents as they
\* were.
C6_IdempotentSkip ==
  \A p \in Paths, file \in RegFiles :
    LET o == add(txn, wdocs, p, file, "none")
        c == commit(o.txn, o.wdocs, "none") IN
    /\ o.res = "ok"
    /\ c.res = "ok"
    /\ \A f \in AddFaults :
         /\ Skipped(add(o.txn, o.wdocs, p, file, f), o.txn, o.wdocs)
         /\ Skipped(add(c.db, c.idx, p, file, f), c.db, c.idx)

\* an add in effect from a committed session, and a later one of the
\* changed file in the open session
C6_Witness ==
  /\ Pending
  /\ \E p \in Paths :
       /\ db[p].some /\ HasDoc(idx, p)
       /\ txn[p].some /\ txn[p] # db[p]
       /\ DocCount(wdocs, p) = 1 /\ wdocs[p] # idx[p]

\* add(p) finds a stored state of another epoch and of the file's hash
MetadataOnlyCase(p, file) ==
  /\ file.kind = "file"
  /\ txn[p].some
  /\ txn[p].epoch # file.mtime
  /\ txn[p].hash = xxh3_64(file.content)

\* C7: when the stored epoch differs from the file's mtime and the stored
\* hash equals the hash of the file's bytes, add(p) changes nothing but the
\* stored epoch of p and issues no writer call: the stored hash, the other
\* entries and the staged documents stay as they were.
C7_MetadataOnly ==
  \A p \in Paths, file \in Files, f \in AddFaults :
    MetadataOnlyCase(p, file) =>
      LET o == add(txn, wdocs, p, file, f) IN
      /\ o.ops = <<>>
      /\ o.wdocs = wdocs
      /\ \A q \in Paths \ {p} : o.txn[q] = txn[q]
      /\ o.txn[p].some /\ o.txn[p].hash = txn[p].hash
      /\ o.res = "ok" => o.txn[p].epoch = file.mtime
      /\ o.res # "ok" => o.txn = txn
      /\ o.fault = "none" => o.res = "ok"

\* an indexed file whose bytes are the indexed ones can be found with
\* another mtime
C7_Witness ==
  \E p \in Paths, file \in Files :
    /\ MetadataOnlyCase(p, file)
    /\ wdocs[p][file.content] = 1
    /\ DocCount(wdocs, p) = 1

\* p is indexed and the index holds no document of the file's bytes
Stale(p, file) ==
  /\ file.kind = "file"
  /\ txn[p].some
  /\ HasDoc(wdocs, p)
  /\ wdocs[p][file.content] = 0

\* add(p) replaces the documents of p by one of the file's content, stores
\* the file's hash, and a commit publishes that
Reindexed(p, file) ==
  LET o == add(txn, wdocs, p, file, "none")
      c == commit(o.txn, o.wdocs, "none") IN
  /\ o.res = "ok"
  /\ o.ops = <<"delete_term", "add_document">>
  /\ o.txn[p] = FileStateEntry(file.mtime, xxh3_64(file.content))
  /\ c.res = "ok"
  /\ c.idx[p] = [x \in Contents |-> IF x = file.content THEN 1 ELSE 0]
  /\ c.db[p] = o.txn[p]

\* C8 as claimed: add(p) reindexes every indexed path whose bytes changed.
C8_Original == \A p \in Paths, file \in Files : Stale(p, file) => Reindexed(p, file)

\* C8 as amended: add(p) reindexes every indexed path whose mtime differs
\* from the stored epoch and whose bytes hash differently from the stored
\* hash; changed bytes under the stored mtime, or under the stored hash,
\* are not reindexed.
C8_ReindexOnChange ==
  \A p \in Paths, file \in Files :
    (Stale(p, file) /\ txn[p].epoch # file.mtime /\ txn[p].hash # xxh3_64(file.content))
      => Reindexed(p, file)

\* an indexed path with one document, whose file can be found rewritten
\* with another mtime and another hash
C8_Witness ==
  \E p \in Paths, file \in Files :
    /\ Stale(p, file)
    /\ txn[p].epoch # file.mtime
    /\ txn[p].hash # xxh3_64(file.content)
    /\ DocCount(wdocs, p) = 1

\* p has no FileState in the session's table and no document in its index
NeverIndexed(p) == ~txn[p].some /\ ~HasDoc(wdocs, p)

\* C9: remove(p) of a path with no FileState and no document reports no
\* error of its own and leaves the table and the documents as they were;
\* a second remove(p) changes nothing the first left.
C9_RemoveIdempotent ==
  \A p \in Paths :
    /\ NeverIndexed(p) =>
         \A f \in RemoveFaults :
           LET o == remove(txn, wdocs, p, f) IN
           /\ o.fault = "none" => o.res = "ok"
           /\ o.txn = txn
           /\ o.wdocs = wdocs
    /\ LET o1 == remove(txn, wdocs, p, "none")
           o2 == remove(o1.txn, o1.wdocs, p, "none") IN
       /\ o1.res = "ok" /\ o2.res = "ok"
       /\ NeverIndexed(p) \/ o1.txn # txn \/ o1.wdocs # wdocs
       /\ o2.txn = o1.txn
       /\ o2.wdocs = o1.wdocs

\* the shell can remove a path never indexed, beside an indexed one
C9_Witness ==
  \E p, q \in Paths :
    /\ NeverIndexed(p)
    /\ \E file \in Files : /\ resolve_file_path(file) = "file"
                            /\ handle_remove_command(p, file, "none").res = "ok"
    /\ txn[q].some /\ HasDoc(wdocs, q)

\* C10: clear, then a successful commit, leaves the committed table and the
\* committed index empty, so that list prints nothing, whatever was
\* committed before and whatever the session had staged before the clear.
C10_ClearEmptiesBoth ==
  \A k \in Paths :
    LET o == clear(txn, wdocs, "none", k)
        c == commit(o.txn, o.wdocs, "none") IN
    /\ o.res = "ok"
    /\ c.res = "ok"
    /\ list(c.db) = {}
    /\ c.db = EmptyTable
    /\ c.idx = EmptyIndex

\* one path committed before, another staged by the open session only
C10_Witness ==
  /\ Pending
  /\ \E p, q \in Paths :
       /\ db[p].some /\ HasDoc(idx, p) /\ txn[p].some
       /\ ~db[q].some /\ txn[q].some /\ HasDoc(wdocs, q)

\* every effect an add, remove or clear line can have in the current state
StagingEffects ==
  {handle_add_command(p, file, f) : p \in Paths, file \in Files, f \in AddFaults}
    \cup {handle_remove_command(p, file, f) : p \in Paths, file \in Files, f \in RemoveFaults}
    \cup {handle_clear_command(f, k) : f \in ClearFaults, k \in Paths}

\* C11 as claimed: every add, remove or clear received in IDLE moves the
\* controller to PENDING, so that it is PENDING exactly when one was
\* received since the last commit or rollback.
C11_Original ==
  /\ pc = "loop" => (Pending <=> received)
  /\ ~Pending =>
       /\ \A p \in Paths, file \in Files :
            /\ handle_add_command(p, file, "none").writer
            /\ handle_remove_command(p, file, "none").writer
       /\ \A k \in Paths : handle_clear_command("none", k).writer

\* C11 as amended: in IDLE a clear, and an add or remove whose path is an
\* accessible regular file, opens a write session when open_write succeeds,
\* applies the operation to it and leaves the controller PENDING, whether
\* the operation staged something, skipped or failed; an add or remove of
\* a missing path or of a directory, and a failing open_write, leave it
\* IDLE with nothing staged. The controller is PENDING exactly when a line
\* of the first kind was read since the last commit, rollback or exit.
C11_OpensSession ==
  /\ pc = "loop" => (Pending <=> accepted)
  /\ ~Pending =>
       /\ \A p \in Paths, file \in Files, f \in AddFaults :
            LET e == handle_add_command(p, file, f)
                o == add(db, idx, p, file, f) IN
            /\ e.writer <=> (resolve_file_path(file) = "file" /\ open_write(f).ok)
            /\ e.writer => e.txn = o.txn /\ e.wdocs = o.wdocs
            /\ ~e.writer => e.txn = db /\ e.wdocs = idx
       /\ \A p \in Paths, file \in Files, f \in RemoveFaults :
            LET e == handle_remove_command(p, file, f)
                o == remove(db, idx, p, f) IN
            /\ e.writer <=> (resolve_file_path(file) = "file" /\ open_write(f).ok)
            /\ e.writer => e.txn = o.txn /\ e.wdocs = o.wdocs
            /\ ~e.writer => e.txn = db /\ e.wdocs = idx
       /\ \A f \in ClearFaults, k \in Paths :
            LET e == handle_clear_command(f, k)
                o == clear(db, idx, f, k) IN
            /\ e.writer <=> open_write(f).ok
            /\ e.writer => e.txn = o.txn /\ e.wdocs = o.wdocs
            /\ ~e.writer => e.txn = db /\ e.wdocs = idx
  /\ \A e \in StagingEffects : e.writer => "write_session" \in e.io \/ Pending

\* a session opened by a command that staged nothing, over a committed
\* table that is not empty
C11_Witness ==
  /\ pc = "loop"
  /\ Pending /\ accepted
  /\ txn = db /\ wdocs = idx
  /\ db # EmptyTable

\* C12: the shell holds at most one write session: a command opens one only
\* when none is held, and add, remove and clear in PENDING work on the held
\* session, on top of what the commands before staged in it; with no
\* session held nothing is staged.
C12_SingleSession ==
  /\ ~Pending => txn = db /\ wdocs = idx
  /\ \A e \in StagingEffects : "write_session" \in e.io => ~Pending
  /\ Pending =>
       /\ \A e \in StagingEffects : e.writer /\ e.db = dbAtOpen /\ e.idx = idxAtOpen
       /\ \A p \in Paths, file \in Files, f \in AddFaults :
            LET e == handle_add_command(p, file, f)
                o == add(txn, wdocs, p, file, f) IN
            resolve_file_path(file) = "file" => e.txn = o.txn /\ e.wdocs = o.wdocs
       /\ \A p \in Paths, file \in Files, f \in RemoveFaults :
            LET e == handle_remove_command(p, file, f)
                o == remove(txn, wdocs, p, f) IN
            resolve_file_path(file) = "file" => e.txn = o.txn /\ e.wdocs = o.wdocs
       /\ \A f \in ClearFaults, k \in Paths :
            LET e == handle_clear_command(f, k)
                o == clear(txn, wdocs, f, k) IN
            e.txn = o.txn /\ e.wdocs = o.wdocs

\* one session holding what two commands staged: an addition of one path
\* and a removal of another
C12_Witness ==
  /\ Pending
  /\ \E p1, p2 \in Paths :
       /\ ~db[p1].some /\ txn[p1].some /\ HasDoc(wdocs, p1)
       /\ db[p2].some /\ ~txn[p2].some /\ ~HasDoc(wdocs, p2) /\ HasDoc(idx, p2)
       /\ handle_add_command(p2, RegFile(0, 1), "none").txn[p1] = txn[p1]

\* the loop ended with effect e: nothing is held or staged any more, and the
\* committed table and index are those of before the session was opened
Discarded(e) ==
  /\ e.pc = "done"
  /\ ~e.writer
  /\ e.db = dbAtOpen /\ e.idx = idxAtOpen
  /\ e.txn = e.db /\ e.wdocs = e.idx

\* C13: when the loop ends with a write session open, by exit (whether its
\* rollback succeeds or fails) or by the end of the input, nothing the
\* session staged is committed: the committed table and index are those of
\* before the session; and once the loop has ended no command is processed.
C13_TerminationDiscards ==
  /\ [](/\ Pending => /\ \A f \in RollbackFaults : Discarded(handle_exit_command(f))
                      /\ Discarded(end_of_input)
        /\ pc = "done" => ~writer /\ txn = db /\ wdocs = idx /\ db = dbAtOpen /\ idx = idxAtOpen)
  /\ [][pc = "loop"]_vars

\* the input ended while a session was open over a committed table that is
\* not empty
C13_Witness ==
  /\ pc = "done"
  /\ accepted
  /\ db # EmptyTable
  /\ db = dbAtOpen

\* every effect a list or search line can have in the current state
ReadingEffects ==
  {handle_list_command(f) : f \in ListFaults}
    \cup {handle_search_command(q, f) : q \in Terms, f \in SearchFaults}

\* C14 as claimed: no read session, of list or of search, is opened while a
\* write session is open.
C14_Original == \A e \in ReadingEffects : "read_session" \in e.io => ~Pending

\* C14 as amended: search opens a read session only while no write session
\* is open; list opens one in either state, so that in PENDING its read
\* session exists beside the open write session: it then prints the table
\* committed before that session and leaves the session as it was.
C14_ReadSessions ==
  /\ \A q \in Terms, f \in SearchFaults :
       "read_session" \in handle_search_command(q, f).io => ~Pending
  /\ \A f \in ListFaults :
       LET e == handle_list_command(f) IN
       /\ "read_session" \in e.io
       /\ e.res = "ok" => e.listed = list(dbAtOpen)
       /\ e.writer = writer /\ e.txn = txn /\ e.wdocs = wdocs
       /\ e.db = db /\ e.idx = idx

\* a session with staged changes, in which list prints a committed table
\* that differs from the session's
C14_Witness ==
  /\ Pending
  /\ list(txn) # list(db)
  /\ handle_list_command("none").listed # {}
  /\ "read_session" \in handle_list_command("none").io

\* every effect that help, list, search, an unknown name or a known name
\* with the wrong arity can have in the current state
NonMutatingEffects ==
  {handle_help_command} \cup ReadingEffects
    \cup {handle_command(c[1], c[2], p, file, q, f, k) :
            c \in {x \in CommandNames \X BOOLEAN : ~Known(x[1], x[2])},
            p \in Paths, file \in SessionFiles, q \in Terms, f \in {"none"}, k \in Paths}

\* C15: help, list, search, an unknown command name and a known name with
\* the wrong arity leave the writer held or not as it was, what is staged,
\* the committed table and the committed index as they were, and the loop
\* running.
C15_NonMutating ==
  \A e \in NonMutatingEffects :
    /\ e.writer = writer
    /\ e.txn = txn /\ e.wdocs = wdocs
    /\ e.db = db /\ e.idx = idx
    /\ e.pc = pc
    /\ e.res \in {"ok", "error", "open_error", "rejected", "unknown"}

\* a session with staged changes over a committed table that is not empty,
\* in which exit with an argument and add without one are unknown commands
C15_Witness ==
  /\ Pending
  /\ db # EmptyTable
  /\ txn # db /\ wdocs # idx
  /\ handle_command("exit", TRUE, 1, NoFile, 0, "none", 1).res = "unknown"
  /\ handle_command("add", FALSE, 1, RegFile(0, 1), 0, "none", 1).res = "unknown"
  /\ handle_list_command("none").res = "ok"

\* C16 as claimed: an add, remove or clear that reports an error leaves the
\* session open and the table and the documents staged in it exactly as
\* they were before the call, so that a commit after it publishes what a
\* commit before it would have.
C16_Original ==
  Pending =>
    \A e \in StagingEffects :
      e.res = "error" =>
        /\ e.writer
        /\ e.txn = txn /\ e.wdocs = wdocs
        /\ commit(e.txn, e.wdocs, "none") = commit(txn, wdocs, "none")

\* what does hold of a failed add, remove or clear: the session stays open,
\* nothing is committed, and a failure of the file read or of the metadata
\* probe, which come before every staging call, leaves nothing staged
C16_FailureKeepsSession ==
  Pending =>
    \A e \in StagingEffects :
      e.res = "error" =>
        /\ e.writer
        /\ e.db = db /\ e.idx = idx
        /\ e.src = "io" => e.txn = txn /\ e.wdocs = wdocs

\* an indexed path in an open session, whose remove can fail after its
\* delete_term was staged
C16_Witness ==
  /\ Pending
  /\ \E p \in Paths :
       /\ txn[p].some /\ HasDoc(wdocs, p)
       /\ LET e == handle_remove_command(p, RegFile(0, 1), "delete_state") IN
          e.res = "error" /\ e.txn = txn /\ ~HasDoc(e.wdocs, p)

\* C17: commit publishes the staged documents before the staged table and
\* the table only after the documents: when the engine commit fails neither
\* is published, when the State-Store commit fails the documents are and
\* the table is not, and the table is never published without the
\* documents.
C17_EngineFirst ==
  Pending =>
    \A f \in CommitFaults :
      LET c == commit(txn, wdocs, f) IN
      /\ c.db \in {db, txn} /\ c.idx \in {idx, wdocs}
      /\ f = "writer_commit" => c.res = ErrorSource("TantivyError") /\ c.db = db /\ c.idx = idx
      /\ f = "txn_commit" => c.res = ErrorSource("redb::CommitError") /\ c.db = db /\ c.idx = wdocs
      /\ f = "none" => c.res = "ok" /\ c.db = txn /\ c.idx = wdocs
      /\ c.db # db => c.idx = wdocs
      /\ c.res # "ok" => c.db = db

\* a session whose table and documents both differ from the committed
\* ones, consistently, so that a failing State-Store commit leaves the
\* committed stores divergent
C17_Witness ==
  /\ Pending
  /\ txn # db /\ wdocs # idx
  /\ Consistent(db, idx) /\ Consistent(txn, wdocs)
  /\ LET c == commit(txn, wdocs, "txn_commit") IN
     c.db = db /\ c.idx = wdocs /\ ~Consistent(c.db, c.idx)

\* C18 as claimed: every add that reindexes p, with or without a stored
\* FileState, issues delete_term before add_document, and the committed
\* index never holds more than one document of a path.
C18_Original ==
  /\ \A p \in Paths : DocCount(idx, p) <= 1
  /\ \A p \in Paths, file \in RegFiles :
       LET o == add(txn, wdocs, p, file, "none") IN
       "add_document" \in {o.ops[i] : i \in 1..Len(o.ops)} =>
         o.ops = <<"delete_term", "add_document">>

\* what the code does: with a stored FileState of another epoch and hash
\* add(p) deletes by path and inserts, leaving one document of p; with no
\* stored FileState it inserts without deleting, leaving one document more
\* than the index held
C18_DeleteOnlyWhenStored ==
  \A p \in Paths, file \in RegFiles :
    LET o == add(txn, wdocs, p, file, "none") IN
    /\ o.res = "ok"
    /\ (txn[p].some /\ o.ops # <<>>) =>
         /\ o.ops = <<"delete_term", "add_document">>
         /\ DocCount(o.wdocs, p) = 1
    /\ ~txn[p].some =>
         /\ o.ops = <<"add_document">>
         /\ DocCount(o.wdocs, p) = DocCount(wdocs, p) + 1

\* the committed index holds two documents of one path
C18_Witness ==
  /\ ~Pending
  /\ \E p \in Paths : DocCount(idx, p) = 2 /\ db[p].some

\* every effect a command can have in the current state
CommandEffects ==
  StagingEffects \cup ReadingEffects
    \cup {handle_commit_command(f) : f \in CommitFaults}
    \cup {handle_rollback_command(f) : f \in RollbackFaults}
    \cup {handle_exit_command(f) : f \in RollbackFaults}

\* C19 as claimed: every reported error carries the tag of the back-end
\* whose call failed: io for the file system, redb for the State Store,
\* tantivy for the search engine.
C19_Original ==
  \A e \in CommandEffects :
    /\ e.fault # "none" => e.src = FaultOrigin(e.fault)

\* what the code does: the tag is the failing back-end's, except for a
\* failing begin_write or begin_read of the State Store, which is tagged
\* tantivy
C19_TagsButBegin ==
  \A e \in CommandEffects :
    /\ (e.fault # "none" /\ e.fault \notin {"begin_write", "begin_read"})
         => e.src = FaultOrigin(e.fault)
    /\ e.fault \in {"begin_write", "begin_read"}
         => FaultOrigin(e.fault) = "redb" /\ e.src = "tantivy"
    /\ e.src # "" <=> e.res \in {"error", "open_error"}

\* with no session open over a committed table that is not empty, a failing
\* begin_write and a failing begin_read are reported as tantivy errors, a
\* failing table access as a redb error
C19_Witness ==
  /\ ~Pending
  /\ db # EmptyTable
  /\ handle_add_command(1, RegFile(0, 1), "begin_write").src = "tantivy"
  /\ handle_list_command("begin_read").src = "tantivy"
  /\ handle_add_command(1, RegFile(0, 1), "get_state").src = "redb"
  /\ handle_add_command(1, RegFile(0, 1), "metadata").src = "io"

\* the byte ranges, in stream order, of the tokens of content whose
\* lower-cased text is term t
RangesOf(content, t) ==
  LET tokens == token_stream(content)
      hit(i) == Lowered(tokens[i].text) = t
      RECURSIVE from(_)
      from(i) == IF i > Len(tokens) THEN <<>>
                 ELSE (IF hit(i) THEN <<<<tokens[i].offset_from, tokens[i].offset_to>>>> ELSE <<>>)
                        \o from(i + 1) IN
  from(1)

\* the bytes of a content, each character as often as it is wide
RECURSIVE Bytes(_)
Bytes(content) ==
  IF content = <<>> THEN <<>>
  ELSE [i \in 1..Width(Head(content)) |-> to_lowercase(Head(content))] \o Bytes(Tail(content))

RECURSIVE Bytes2(_)
Bytes2(text) ==
  IF text = <<>> THEN <<>>
  ELSE [i \in 1..Width(Head(text)) |-> Head(text)] \o Bytes2(Tail(text))

\* the documents the search returned entries for: the matching ones that
\* have a path, cut after the limit was applied
Returned(r) ==
  SelectSeq(top_docs(r.docs, r.terms, EffectiveLimit(r.limit)), LAMBDA d : d.path # 0)

\* C20: every entry search returns has as fragment keys only terms of the
\* query; each key's list is, in token order and without omission or
\* repetition, the byte range of every token of the stored content whose
\* lower-cased text is that term, and the bytes in each range spell the
\* term; a term no token equals is no key; a document without a path gives
\* no entry; and there are at most limit entries, 100000 when none is given.
C20_Fragments ==
  req.done =>
    /\ Len(req.entries) <= EffectiveLimit(req.limit)
    /\ Len(req.entries) = Len(Returned(req))
    /\ \A i \in 1..Len(req.entries) :
         LET e == req.entries[i]
             doc == Returned(req)[i] IN
         /\ e.path = doc.path /\ e.path # 0
         /\ DOMAIN e.fragments \subseteq req.terms
         /\ \A t \in req.terms :
              /\ t \in DOMAIN e.fragments <=> RangesOf(doc.content, t) # <<>>
              /\ t \in DOMAIN e.fragments =>
                   /\ e.fragments[t] = RangesOf(doc.content, t)
                   /\ \A k \in 1..Len(e.fragments[t]) :
                        LET r == e.fragments[t][k] IN
                        /\ r[1] < r[2]
                        /\ SubSeq(Bytes(doc.content), r[1] + 1, r[2]) = Bytes2(t)
                        /\ \A j \in 1..(k - 1) : e.fragments[t][j][2] < r[1]

\* a search over a matching document without a path and one holding a term
\* of a two-byte letter twice, the second time at byte 3
C20_Witness ==
  /\ req.done
  /\ Len(req.docs) = 2 /\ Len(req.entries) = 1
  /\ req.docs[1].path = 0 /\ Matches(req.docs[1], req.terms)
  /\ \E t \in DOMAIN req.entries[1].fragments :
       /\ Len(req.entries[1].fragments[t]) = 2
       /\ req.entries[1].fragments[t][2] = <<3, 5>>

\* after the commit c, p is listed with the entry of file and the index
\* holds one document of p, of the file's content
ListedOnce(c, p, file) ==
  /\ c.res = "ok"
  /\ c.db[p] = FileStateEntry(file.mtime, xxh3_64(file.content))
  /\ p \in {r.path : r \in list(c.db)}
  /\ c.idx[p] = [x \in Contents |-> IF x = file.content THEN 1 ELSE 0]

\* after the commit c, p has no FileState and no document
Absent(c, p) ==
  /\ c.res = "ok"
  /\ ~c.db[p].some
  /\ ~HasDoc(c.idx, p)

\* C21, remove and add: in one session, remove(p) then add(p) then commit
\* leaves p listed with exactly one document, of the file's current
\* content, and add(p) then remove(p) then commit leaves p in neither
\* store, whatever was committed and staged before. This rests on
\* delete_term reaching the documents added before it and no later one.
C21_RemoveAddOrder ==
  \A p \in Paths, file \in RegFiles :
    /\ LET r == remove(txn, wdocs, p, "none")
           a == add(r.txn, r.wdocs, p, file, "none") IN
       /\ r.res = "ok" /\ a.res = "ok"
       /\ r.ops \o a.ops = <<"delete_term", "add_document">>
       /\ ListedOnce(commit(a.txn, a.wdocs, "none"), p, file)
    /\ LET a == add(txn, wdocs, p, file, "none")
           r == remove(a.txn, a.wdocs, p, "none") IN
       /\ a.res = "ok" /\ r.res = "ok"
       /\ Absent(commit(r.txn, r.wdocs, "none"), p)

\* C21, clear and add: the same with clear in the place of remove(p). This
\* rests on delete_all_documents dropping the documents the session staged
\* before it as well as the committed ones, and no later one.
C21_ClearAddOrder ==
  \A p \in Paths, file \in RegFiles, k \in Paths :
    /\ LET r == clear(txn, wdocs, "none", k)
           a == add(r.txn, r.wdocs, p, file, "none") IN
       /\ r.res = "ok" /\ a.res = "ok"
       /\ ListedOnce(commit(a.txn, a.wdocs, "none"), p, file)
    /\ LET a == add(txn, wdocs, p, file, "none")
           r == clear(a.txn, a.wdocs, "none", k) IN
       /\ a.res = "ok" /\ r.res = "ok"
       /\ Absent(commit(r.txn, r.wdocs, "none"), p)

\* an open session over a committed, indexed path, with another path staged
\* by the session only
C21_Witness ==
  /\ Pending
  /\ \E p, q \in Paths :
       /\ db[p].some /\ HasDoc(idx, p) /\ txn[p].some /\ HasDoc(wdocs, p)
       /\ ~db[q].some /\ ~HasDoc(idx, q) /\ txn[q].some /\ HasDoc(wdocs, q)

====
